---- MODULE Spec2Model ----
(***************************************************************************)
(* Model of the truck-loading optimizer's placement engine                 *)
(* (src/services/optimizationAlgorithm.ts): optimizeLoading, the functions *)
(* it calls, and generateLoadingInstructions over the returned plan.       *)
(*                                                                         *)
(* Numbers.  The engine computes on JavaScript numbers.  Here every length *)
(* is an integer count of UNITS, one unit being 1/20 of the search step    *)
(* (0.005 length units), so that the generator's step of 0.1 is 20 units   *)
(* and the 95% / 75% fallbacks of the outer dimensions are exact on outer  *)
(* dimensions that are multiples of 20 units.  Arithmetic is exact:        *)
(* quotients are kept as fractions (Frac) and a division by zero yields    *)
(* the values JavaScript yields (NaN, Infinity).                           *)
(***************************************************************************)
EXTENDS Integers, Sequences, FiniteSets, TLC

\* ------------------------------------------------------------------ bounds
\* Longest input list of skids handed to optimizeLoading.
MaxSkids == 3

\* ------------------------------------------------------- program constants
\* const step = 0.1, in units.
Step == 20
\* An optional field that is absent (maxWeightOnTop?, insideWidth?, ...).
Undefined == -1
\* ALGORITHM_CONFIG.PRIORITY_WEIGHT = 0.7 = PRIORITY_WEIGHT_NUM / PriorityWeightDen.
PRIORITY_WEIGHT_NUM == 7
PriorityWeightDen == 10

\* ------------------------------------------------------------- JS numbers
\* The result of a JavaScript division a / b of two non-negative numbers.
NaN == [kind |-> "NaN"]
Infinity == [kind |-> "Infinity"]
Frac(n, d) == [kind |-> "finite", num |-> n, den |-> d]
\* Greatest common divisor of a >= 0 and b >= 0; fractions are kept in lowest
\* terms where their terms would otherwise outgrow the integers at hand.
RECURSIVE GCD(_, _)
GCD(a, b) == IF b = 0 THEN a ELSE GCD(b, a % b)
Divide(a, b) ==
    IF b # 0 THEN Frac(a \div GCD(a, b), b \div GCD(a, b))
    ELSE IF a = 0 THEN NaN ELSE Infinity
\* q * k for a JavaScript number q and an integer k > 0.
Times(q, k) ==
    IF q.kind = "finite"
    THEN Frac(q.num * (k \div GCD(k, q.den)), q.den \div GCD(k, q.den))
    ELSE q
\* p + q.
Plus(p, q) ==
    IF p.kind = "NaN" \/ q.kind = "NaN" THEN NaN
    ELSE IF p.kind = "Infinity" \/ q.kind = "Infinity" THEN Infinity
    ELSE LET common == GCD(p.den, q.den)
         IN  Divide(p.num * (q.den \div common) + q.num * (p.den \div common),
                    (p.den \div common) * q.den)
\* q = k for an integer k.
IsNumber(q, k) == q.kind = "finite" /\ q.num = k * q.den

Min(a, b) == IF a < b THEN a ELSE b
Max(a, b) == IF a > b THEN a ELSE b
Abs(a) == IF a < 0 THEN -a ELSE a

\* JavaScript's a || b on numbers: an absent or zero a is falsy.
OrElse(a, b) == IF a = Undefined \/ a = 0 THEN b ELSE a

\* ------------------------------------------------------------------ types
\* calculateSkidVolume
calculateSkidVolume(skid) == skid.width * skid.length * skid.height

\* A skid carries a position once the engine has placed it.
HasPosition(skid) == "position" \in DOMAIN skid

\* InsideWidth falling back to the whole outer width.
InsideWidth_Outer(truck) == OrElse(truck.insideWidth, truck.width)

\* Usable dimensions: the inside dimension, else 95% (width, length) or 75%
\* (height) of the outer one.
InsideWidth(truck) == OrElse(truck.insideWidth, (truck.width * 95) \div 100)
InsideHeight(truck) == OrElse(truck.insideHeight, (truck.height * 75) \div 100)
InsideLength(truck) == OrElse(truck.insideLength, (truck.length * 95) \div 100)

\* Footprint of a skid at a rotation.
RotatedWidth(skid, rotation) == IF rotation = 0 THEN skid.width ELSE skid.length
RotatedLength(skid, rotation) == IF rotation = 0 THEN skid.length ELSE skid.width

\* The overlap area of the candidate footprint with a placed skid's footprint.
OverlapArea(x, z, skidWidth, skidLength, placedSkid) ==
    LET placedPos == placedSkid.position
        placedWidth == RotatedWidth(placedSkid, placedPos.rotation)
        placedLength == RotatedLength(placedSkid, placedPos.rotation)
        overlapX == Min(x + skidWidth, placedPos.x + placedWidth) - Max(x, placedPos.x)
        overlapZ == Min(z + skidLength, placedPos.z + placedLength) - Max(z, placedPos.z)
    IN  overlapX * overlapZ

\* "placed skid is directly below the current position"
DirectlyBelow(x, y, z, skidWidth, skidLength, placedSkid) ==
    LET placedPos == placedSkid.position
        placedWidth == RotatedWidth(placedSkid, placedPos.rotation)
        placedLength == RotatedLength(placedSkid, placedPos.rotation)
    IN  /\ placedPos.y + placedSkid.height = y
        /\ x < placedPos.x + placedWidth
        /\ x + skidWidth > placedPos.x
        /\ z < placedPos.z + placedLength
        /\ z + skidLength > placedPos.z

\* Intersects with the placed skid's footprint taken unrotated.
Intersects_Unrotated(x, y, z, skidWidth, skidLength, skidHeight, placedSkid) ==
    LET placedPos == placedSkid.position
    IN  /\ x < placedPos.x + placedSkid.width
        /\ x + skidWidth > placedPos.x
        /\ y < placedPos.y + placedSkid.height
        /\ y + skidHeight > placedPos.y
        /\ z < placedPos.z + placedSkid.length
        /\ z + skidLength > placedPos.z

\* The 3D intersection test of the collision loop.
Intersects(x, y, z, skidWidth, skidLength, skidHeight, placedSkid) ==
    LET placedPos == placedSkid.position
        placedWidth == RotatedWidth(placedSkid, placedPos.rotation)
        placedLength == RotatedLength(placedSkid, placedPos.rotation)
    IN  /\ x < placedPos.x + placedWidth
        /\ x + skidWidth > placedPos.x
        /\ y < placedPos.y + placedSkid.height
        /\ y + skidHeight > placedPos.y
        /\ z < placedPos.z + placedLength
        /\ z + skidLength > placedPos.z

\* The supporters the two support loops iterate over: placed, stackable and
\* directly below.
IsSupporter(x, y, z, skidWidth, skidLength, placedSkid) ==
    /\ HasPosition(placedSkid)
    /\ placedSkid.isStackable
    /\ DirectlyBelow(x, y, z, skidWidth, skidLength, placedSkid)

\* supportedArea after the first support loop (k placed skids still to visit).
RECURSIVE supportedArea(_, _, _, _, _, _, _)
supportedArea(x, y, z, skidWidth, skidLength, placedSkids, k) ==
    IF k = 0 THEN 0
    ELSE supportedArea(x, y, z, skidWidth, skidLength, placedSkids, k - 1)
         + (IF IsSupporter(x, y, z, skidWidth, skidLength, placedSkids[k])
            THEN OverlapArea(x, z, skidWidth, skidLength, placedSkids[k])
            ELSE 0)

\* WeightSupportOf without the supportProportion factor.
WeightSupportOf_Whole(x, z, skidWidth, skidLength, placedSkid) ==
    IF placedSkid.maxWeightOnTop # Undefined
    THEN Frac(placedSkid.maxWeightOnTop, 1)
    ELSE Frac(placedSkid.weight * 8, 10)

\* What one supporter adds to maxWeightSupport:
\* maxWeightOnTop * supportProportion, or weight * 0.8 * supportProportion.
WeightSupportOf(x, z, skidWidth, skidLength, placedSkid) ==
    LET placedPos == placedSkid.position
        placedWidth == RotatedWidth(placedSkid, placedPos.rotation)
        placedLength == RotatedLength(placedSkid, placedPos.rotation)
        overlapArea == OverlapArea(x, z, skidWidth, skidLength, placedSkid)
    IN  IF placedSkid.maxWeightOnTop # Undefined
        THEN Divide(placedSkid.maxWeightOnTop * overlapArea, placedWidth * placedLength)
        ELSE Divide(placedSkid.weight * 8 * overlapArea, 10 * placedWidth * placedLength)

\* maxWeightSupport after the second support loop.
RECURSIVE maxWeightSupport(_, _, _, _, _, _, _)
maxWeightSupport(x, y, z, skidWidth, skidLength, placedSkids, k) ==
    IF k = 0 THEN Frac(0, 1)
    ELSE LET rest == maxWeightSupport(x, y, z, skidWidth, skidLength, placedSkids, k - 1)
         IN  IF IsSupporter(x, y, z, skidWidth, skidLength, placedSkids[k])
             THEN Plus(rest, WeightSupportOf(x, z, skidWidth, skidLength, placedSkids[k]))
             ELSE rest

\* skid.weight > maxWeightSupport
TooHeavy(weight, support) == weight * support.den > support.num

\* The boundary test of canPlaceSkid: TRUE when the skid is within the truck.
WithinBoundaries(skid, position, truckDimensions) ==
    LET skidWidth == RotatedWidth(skid, position.rotation)
        skidLength == RotatedLength(skid, position.rotation)
    IN  ~ \/ position.x < 0
          \/ position.y < 0
          \/ position.z < 0
          \/ position.x + skidWidth > InsideWidth(truckDimensions)
          \/ position.y + skid.height > InsideHeight(truckDimensions)
          \/ position.z + skidLength > InsideLength(truckDimensions)

\* The collision loop of canPlaceSkid: TRUE when no placed skid intersects.
NoCollision(skid, position, placedSkids) ==
    LET skidWidth == RotatedWidth(skid, position.rotation)
        skidLength == RotatedLength(skid, position.rotation)
    IN  \A k \in 1..Len(placedSkids) :
           HasPosition(placedSkids[k]) =>
              ~Intersects(position.x, position.y, position.z,
                          skidWidth, skidLength, skid.height, placedSkids[k])

\* SufficientSupport with minSupportRatio = 0.5.
SufficientSupport_Half(skid, position, placedSkids) ==
    LET skidWidth == RotatedWidth(skid, position.rotation)
        skidLength == RotatedLength(skid, position.rotation)
        skidArea == skidWidth * skidLength
    IN  ~(10 * supportedArea(position.x, position.y, position.z, skidWidth, skidLength,
                             placedSkids, Len(placedSkids))
            < 5 * skidArea)

\* The support test: supportedArea / skidArea < minSupportRatio (0.7) rejects.
SufficientSupport(skid, position, placedSkids) ==
    LET skidWidth == RotatedWidth(skid, position.rotation)
        skidLength == RotatedLength(skid, position.rotation)
        skidArea == skidWidth * skidLength
    IN  ~(10 * supportedArea(position.x, position.y, position.z, skidWidth, skidLength,
                             placedSkids, Len(placedSkids))
            < 7 * skidArea)

\* The weight test: skid.weight > maxWeightSupport rejects.
WeightSupported(skid, position, placedSkids) ==
    LET skidWidth == RotatedWidth(skid, position.rotation)
        skidLength == RotatedLength(skid, position.rotation)
    IN  ~TooHeavy(skid.weight,
                  maxWeightSupport(position.x, position.y, position.z, skidWidth,
                                   skidLength, placedSkids, Len(placedSkids)))

\* canPlaceSkid(skid, position, placedSkids, truckDimensions)
canPlaceSkid(skid, position, placedSkids, truckDimensions) ==
    /\ WithinBoundaries(skid, position, truckDimensions)
    /\ NoCollision(skid, position, placedSkids)
    /\ position.y > 0 =>
          /\ SufficientSupport(skid, position, placedSkids)
          /\ WeightSupported(skid, position, placedSkids)

\* ------------------------------------------------------ candidate generator
Position(x, y, z, rotation) == [x |-> x, y |-> y, z |-> z, rotation |-> rotation]

\* Number of values a loop "for (v = lo; v <= hi; v += step)" visits.
LoopCount(lo, hi) == IF hi < lo THEN 0 ELSE (hi - lo) \div Step + 1

\* FloorCandidates trying rotation 90 before rotation 0.
FloorCandidates_RotatedFirst(skid, truckDimensions) ==
    LET m == Min(skid.length, skid.width)
        nz == LoopCount(0, InsideLength(truckDimensions) - m)
        nx == LoopCount(0, InsideWidth(truckDimensions) - m)
    IN  [k \in 1..(nz * nx * 2) |->
            Position((((k - 1) \div 2) % nx) * Step,
                     0,
                     ((k - 1) \div (2 * nx)) * Step,
                     IF (k - 1) % 2 = 0 THEN 90 ELSE 0)]

\* The positions the floor loops try, in the order they try them: z outer,
\* x inner, rotation 0 before rotation 90.
FloorCandidates(skid, truckDimensions) ==
    LET m == Min(skid.length, skid.width)
        nz == LoopCount(0, InsideLength(truckDimensions) - m)
        nx == LoopCount(0, InsideWidth(truckDimensions) - m)
    IN  [k \in 1..(nz * nx * 2) |->
            Position((((k - 1) \div 2) % nx) * Step,
                     0,
                     ((k - 1) \div (2 * nx)) * Step,
                     IF (k - 1) % 2 = 0 THEN 0 ELSE 90)]

\* The positions the loops over one placed skid try, in order: zOffset outer
\* from -skid.length + step to placedSkid.length, xOffset inner from
\* -skid.width + step to placedSkid.width, rotation 0 before rotation 90.
StackCandidatesOn(skid, placedSkid) ==
    LET placedPos == placedSkid.position
        y == placedPos.y + placedSkid.height
        zLo == Step - skid.length
        xLo == Step - skid.width
        nz == LoopCount(zLo, placedSkid.length)
        nx == LoopCount(xLo, placedSkid.width)
    IN  [k \in 1..(nz * nx * 2) |->
            Position(placedPos.x + xLo + (((k - 1) \div 2) % nx) * Step,
                     y,
                     placedPos.z + zLo + ((k - 1) \div (2 * nx)) * Step,
                     IF (k - 1) % 2 = 0 THEN 0 ELSE 90)]

\* The stacked positions tried over the first k placed skids.
RECURSIVE StackCandidates(_, _, _)
StackCandidates(skid, placedSkids, k) ==
    IF k = 0 THEN << >>
    ELSE StackCandidates(skid, placedSkids, k - 1)
         \o (IF ~HasPosition(placedSkids[k]) \/ ~placedSkids[k].isStackable
             THEN << >>
             ELSE StackCandidatesOn(skid, placedSkids[k]))

\* StackedPositions without the test on the skid's isFragile.
StackedPositions_FragileToo(skid, placedSkids) ==
    StackCandidates(skid, placedSkids, Len(placedSkids))

\* The stacked positions findPossiblePositions tries: none for a fragile skid.
StackedPositions(skid, placedSkids) ==
    IF ~skid.isFragile
    THEN StackCandidates(skid, placedSkids, Len(placedSkids))
    ELSE << >>

\* findPossiblePositions(skid, placedSkids, truckDimensions)
findPossiblePositions(skid, placedSkids, truckDimensions) ==
    LET Feasible(position) == canPlaceSkid(skid, position, placedSkids, truckDimensions)
    IN  SelectSeq(FloorCandidates(skid, truckDimensions), Feasible)
        \o SelectSeq(StackedPositions(skid, placedSkids), Feasible)

\* ------------------------------------------------------------------ scorer
\* One length unit of the source, in units: ten steps of 0.1.
LengthUnit == 10 * Step

\* The scale scores are multiplied by to stay integers: 4 for the halves of
\* the balance term, LengthUnit for its distance (a length, 0.5 a length
\* unit), PriorityWeightDen, and insideLength for the two z terms.
ScoreScale(truckDimensions) ==
    4 * LengthUnit * PriorityWeightDen * InsideLength(truckDimensions)

\* isInContactX || isInContactZ for one placed skid.
InContact(skid, position, placedSkid) ==
    LET placedPos == placedSkid.position
        placedWidth == RotatedWidth(placedSkid, placedPos.rotation)
        placedLength == RotatedLength(placedSkid, placedPos.rotation)
        isInContactX ==
            /\ \/ position.x = placedPos.x + placedWidth
               \/ position.x + skid.width = placedPos.x
            /\ position.z < placedPos.z + placedLength
            /\ position.z + skid.length > placedPos.z
            /\ position.y < placedPos.y + placedSkid.height
            /\ position.y + skid.height > placedPos.y
        isInContactZ ==
            /\ \/ position.z = placedPos.z + placedLength
               \/ position.z + skid.length = placedPos.z
            /\ position.x < placedPos.x + placedWidth
            /\ position.x + skid.width > placedPos.x
            /\ position.y < placedPos.y + placedSkid.height
            /\ position.y + skid.height > placedPos.y
    IN  isInContactX \/ isInContactZ

\* contactScore
contactScore(skid, position, placedSkids) ==
    Cardinality({k \in 1..Len(placedSkids) :
                    /\ HasPosition(placedSkids[k])
                    /\ InContact(skid, position, placedSkids[k])})

\* What the priority branch of scorePosition adds to the score, multiplied by
\* ScoreScale(truckDimensions):
\* (1 - z / insideLength) * 10 * PRIORITY_WEIGHT, or (z / insideLength) * 5.
priorityScore(skid, position, truckDimensions) ==
    IF skid.priority <= 2
    THEN (InsideLength(truckDimensions) - position.z)
            * 10 * PRIORITY_WEIGHT_NUM * 4 * LengthUnit
    ELSE position.z * 5 * 4 * LengthUnit * PriorityWeightDen

\* scorePosition(skid, position, placedSkids, truckDimensions), multiplied by
\* ScoreScale(truckDimensions).
scorePosition(skid, position, placedSkids, truckDimensions) ==
    LET insideWidth == InsideWidth(truckDimensions)
        insideLength == InsideLength(truckDimensions)
        scale == ScoreScale(truckDimensions)
        priorityTerm == priorityScore(skid, position, truckDimensions)
        floorTerm == IF position.y = 0 THEN 3 ELSE 0
        sideWallTerm ==
            IF position.x = 0 \/ position.x + skid.width >= insideWidth THEN 2 ELSE 0
        endWallTerm ==
            IF position.z = 0 \/ position.z + skid.length >= insideLength THEN 2 ELSE 0
        \* |skidCenterX - xCenterOfTruck| * 0.5, times 4 * LengthUnit
        distanceFromCenter2 == Abs(2 * position.x + skid.width - insideWidth)
    IN  priorityTerm
        + (floorTerm + sideWallTerm + endWallTerm
             + contactScore(skid, position, placedSkids)) * scale
        - distanceFromCenter2 * PriorityWeightDen * insideLength

\* SelectBestIn replacing the best position on an equal score too
\* (score >= bestScore).
RECURSIVE SelectBestIn_OnTies(_, _, _, _, _, _)
SelectBestIn_OnTies(skid, positions, placedSkids, truckDimensions, lo, hi) ==
    IF hi < lo THEN [hasBest |-> FALSE]
    ELSE IF lo = hi
    THEN [hasBest |-> TRUE,
          bestScore |-> scorePosition(skid, positions[lo], placedSkids, truckDimensions),
          bestPosition |-> positions[lo]]
    ELSE LET mid == (lo + hi) \div 2
             first == SelectBestIn_OnTies(skid, positions, placedSkids, truckDimensions,
                                          lo, mid)
             second == SelectBestIn_OnTies(skid, positions, placedSkids, truckDimensions,
                                           mid + 1, hi)
         IN  IF second.bestScore >= first.bestScore THEN second ELSE first

\* The selection loop of optimizeLoading over positions[lo..hi], entered with
\* bestScore = -Infinity (hasBest = FALSE): a later position replaces the best
\* one only when its score is strictly greater.  The range is halved so that
\* the evaluation stays shallow; the loop's left-to-right result is the same.
RECURSIVE SelectBestIn(_, _, _, _, _, _)
SelectBestIn(skid, positions, placedSkids, truckDimensions, lo, hi) ==
    IF hi < lo THEN [hasBest |-> FALSE]
    ELSE IF lo = hi
    THEN [hasBest |-> TRUE,
          bestScore |-> scorePosition(skid, positions[lo], placedSkids, truckDimensions),
          bestPosition |-> positions[lo]]
    ELSE LET mid == (lo + hi) \div 2
             first == SelectBestIn(skid, positions, placedSkids, truckDimensions, lo, mid)
             second == SelectBestIn(skid, positions, placedSkids, truckDimensions,
                                    mid + 1, hi)
         IN  IF second.bestScore > first.bestScore THEN second ELSE first

\* The selection loop of optimizeLoading run over the first k positions: the
\* first position of the maximum score.
SelectBest(skid, positions, placedSkids, truckDimensions, k) ==
    SelectBestIn(skid, positions, placedSkids, truckDimensions, 1, k)

\* --------------------------------------------------------------- sequencer
\* CompareSkids with the lighter skid first on equal priority.
CompareSkids_LighterFirst(a, b) ==
    IF a.priority # b.priority THEN a.priority - b.priority
    ELSE IF a.weight # b.weight THEN a.weight - b.weight
    ELSE calculateSkidVolume(b) - calculateSkidVolume(a)

\* The comparator of sortSkidsForLoading: negative when a goes first.
CompareSkids(a, b) ==
    IF a.priority # b.priority THEN a.priority - b.priority
    ELSE IF a.weight # b.weight THEN b.weight - a.weight
    ELSE calculateSkidVolume(b) - calculateSkidVolume(a)

\* InsertSorted putting an element before the elements it compares equal to.
RECURSIVE InsertSorted_Unstable(_, _)
InsertSorted_Unstable(sorted, skid) ==
    IF sorted = << >> THEN << skid >>
    ELSE IF CompareSkids(sorted[Len(sorted)], skid) < 0 THEN Append(sorted, skid)
    ELSE Append(InsertSorted_Unstable(SubSeq(sorted, 1, Len(sorted) - 1), skid),
                sorted[Len(sorted)])

\* Array.prototype.sort is stable: an element goes after every element that
\* does not compare greater than it.
RECURSIVE InsertSorted(_, _)
InsertSorted(sorted, skid) ==
    IF sorted = << >> THEN << skid >>
    ELSE IF CompareSkids(sorted[Len(sorted)], skid) <= 0 THEN Append(sorted, skid)
    ELSE Append(InsertSorted(SubSeq(sorted, 1, Len(sorted) - 1), skid), sorted[Len(sorted)])

RECURSIVE SortPrefix(_, _)
SortPrefix(list, k) ==
    IF k = 0 THEN << >> ELSE InsertSorted(SortPrefix(list, k - 1), list[k])

\* sortSkidsForLoading(skids)
sortSkidsForLoading(list) == SortPrefix(list, Len(list))

\* ----------------------------------------------------------------- metrics
\* Sum of f[k] over k in 1..n.
RECURSIVE SumTo(_, _)
SumTo(f, n) == IF n = 0 THEN 0 ELSE SumTo(f, n - 1) + f[n]

\* Percentage without the totalWeight > 0 guard.
Percentage_Unguarded(part, totalWeight) == Times(Divide(part, totalWeight), 100)

\* totalWeight > 0 ? (part / totalWeight) * 100 : 0
Percentage(part, totalWeight) ==
    IF totalWeight > 0 THEN Times(Divide(part, totalWeight), 100) ELSE Frac(0, 1)

\* relativeZ < 0.33, with relativeZ = skidCenterZ / insideLength
InFront(skid, truckDimensions) ==
    (2 * skid.position.z + RotatedLength(skid, skid.position.rotation)) * 100
       < 33 * 2 * InsideLength(truckDimensions)

\* InMiddle as a plain "if" instead of "else if".
InMiddle_NoElse(skid, truckDimensions) ==
    (2 * skid.position.z + RotatedLength(skid, skid.position.rotation)) * 100
       < 66 * 2 * InsideLength(truckDimensions)

\* else if (relativeZ < 0.66)
InMiddle(skid, truckDimensions) ==
    /\ ~InFront(skid, truckDimensions)
    /\ (2 * skid.position.z + RotatedLength(skid, skid.position.rotation)) * 100
          < 66 * 2 * InsideLength(truckDimensions)

\* relativeX < 0.5, with relativeX = skidCenterX / insideWidth
InLeft(skid, truckDimensions) ==
    (2 * skid.position.x + RotatedWidth(skid, skid.position.rotation)) * 10
       < 5 * 2 * InsideWidth(truckDimensions)

\* calculateWeightDistribution(loadedSkids, truckDimensions)
calculateWeightDistribution(loaded, truckDimensions) ==
    LET n == Len(loaded)
        Front(k) == InFront(loaded[k], truckDimensions)
        Middle(k) == InMiddle(loaded[k], truckDimensions)
        Back(k) == ~InFront(loaded[k], truckDimensions)
                   /\ ~InMiddle(loaded[k], truckDimensions)
        Left(k) == InLeft(loaded[k], truckDimensions)
        Right(k) == ~InLeft(loaded[k], truckDimensions)
        All(k) == TRUE
        WeightWhere(In(_)) ==
            SumTo([k \in 1..n |->
                     IF HasPosition(loaded[k]) /\ In(k) THEN loaded[k].weight ELSE 0], n)
        totalWeight == WeightWhere(All)
    IN  [front |-> Percentage(WeightWhere(Front), totalWeight),
         middle |-> Percentage(WeightWhere(Middle), totalWeight),
         back |-> Percentage(WeightWhere(Back), totalWeight),
         left |-> Percentage(WeightWhere(Left), totalWeight),
         right |-> Percentage(WeightWhere(Right), totalWeight)]

\* TruckVolume taking the product of the outer dimensions.
TruckVolume_Outer(truckDimensions) ==
    OrElse(truckDimensions.cubicCapacity,
           truckDimensions.length * truckDimensions.width * truckDimensions.height)

\* truckVolume of calculateSpaceUtilization.
TruckVolume(truckDimensions) ==
    OrElse(truckDimensions.cubicCapacity,
           InsideLength(truckDimensions) * InsideWidth(truckDimensions)
             * InsideHeight(truckDimensions))

\* calculateSpaceUtilization(loadedSkids, truckDimensions)
calculateSpaceUtilization(loaded, truckDimensions) ==
    LET skidsVolume ==
            SumTo([k \in 1..Len(loaded) |-> calculateSkidVolume(loaded[k])], Len(loaded))
    IN  Times(Divide(skidsVolume, TruckVolume(truckDimensions)), 100)

\* UnloadedOf comparing each skid with the last loaded skid only.
UnloadedOf_LastOnly(toLoad, loaded) ==
    LET NotLoaded(skid) == loaded = << >> \/ loaded[Len(loaded)].id # skid.id
    IN  SelectSeq(toLoad, NotLoaded)

\* skidsToLoad.filter(skid => !loadedSkids.some(loadedSkid => loadedSkid.id === skid.id))
UnloadedOf(toLoad, loaded) ==
    LET NotLoaded(skid) == ~ \E k \in 1..Len(loaded) : loaded[k].id = skid.id
    IN  SelectSeq(toLoad, NotLoaded)

\* The LoadingPlan optimizeLoading returns.
LoadingPlanOf(toLoad, loaded, truckDimensions) ==
    [truckDimensions |-> truckDimensions,
     loadedSkids |-> loaded,
     unloadedSkids |-> UnloadedOf(toLoad, loaded),
     spaceUtilization |-> calculateSpaceUtilization(loaded, truckDimensions),
     totalWeight |-> SumTo([k \in 1..Len(loaded) |-> loaded[k].weight], Len(loaded)),
     weightDistribution |-> calculateWeightDistribution(loaded, truckDimensions)]

\* ------------------------------------------------------------------ inputs
Skid(w, l, h, weight, priority, stackable, fragile, maxOnTop) ==
    [width |-> w, length |-> l, height |-> h, weight |-> weight, priority |-> priority,
     isStackable |-> stackable, isFragile |-> fragile, maxWeightOnTop |-> maxOnTop]

\* The skids the inputs are drawn from (dimensions in units, Step = 20).
SkidKinds ==
    { Skid(40, 40, 20, 100, 1, TRUE, FALSE, 50),
      Skid(40, 40, 20, 60, 2, FALSE, FALSE, Undefined),
      Skid(40, 40, 20, 40, 3, TRUE, FALSE, Undefined),
      Skid(40, 60, 20, 80, 1, TRUE, TRUE, Undefined),
      Skid(40, 30, 20, 100, 1, TRUE, FALSE, 100),
      Skid(20, 20, 20, 0, 3, TRUE, FALSE, Undefined),
      Skid(20, 40, 40, 30, 2, FALSE, FALSE, Undefined),
      Skid(20, 20, 20, 10, 1, TRUE, TRUE, Undefined) }

Truck(l, w, h, insideL, insideW, insideH, cubic) ==
    [length |-> l, width |-> w, height |-> h, maxWeight |-> 200,
     insideLength |-> insideL, insideWidth |-> insideW, insideHeight |-> insideH,
     cubicCapacity |-> cubic]

\* The containers the inputs are drawn from: inside dimensions given, without
\* and with a cubicCapacity; outer dimensions only; outer length 0.
Trucks ==
    { Truck(80, 60, 60, 60, 40, 40, Undefined),
      Truck(80, 60, 60, 60, 40, 40, 120000),
      Truck(80, 40, 80, Undefined, Undefined, Undefined, Undefined),
      Truck(0, 40, 80, Undefined, Undefined, Undefined, Undefined) }

\* Input lists: up to MaxSkids skids, ids unique (the id is the input index).
SkidLists ==
    UNION { { [k \in 1..n |-> [id |-> k] @@ kinds[k]] : kinds \in [1..n -> SkidKinds] }
            : n \in 0..MaxSkids }

\* Scenario inputs, on a usable container of 10 x 2 x 2 (length x width x
\* height, 2000 x 400 x 400 units): a 2 x 2 x 2 skid of priority 1, and
\* non-stackable skids 6 long, 2 wide and 2 high of several priorities and
\* weights, and one 5 long.
ScenarioTruck == Truck(2200, 440, 440, 2000, 400, 400, Undefined)
ScenarioKinds ==
    { Skid(400, 400, 400, 100, 1, FALSE, FALSE, Undefined),
      Skid(400, 1200, 400, 100, 1, FALSE, FALSE, Undefined),
      Skid(400, 1200, 400, 120, 1, FALSE, FALSE, Undefined),
      Skid(400, 1200, 400, 100, 2, FALSE, FALSE, Undefined),
      Skid(400, 1000, 400, 100, 1, FALSE, FALSE, Undefined) }
ScenarioLists ==
    UNION { { [k \in 1..n |-> [id |-> k] @@ kinds[k]] : kinds \in [1..n -> ScenarioKinds] }
            : n \in 0..MaxSkids }

\* A container whose usable width exceeds every skid's width by more than 8
\* length units (1600 units), as when the width is entered in inches; it is
\* paired with the single-skid lists.
WideTruck == Truck(60, 1800, 60, 40, 1700, 40, Undefined)
SingleLists == { << [id |-> 1] @@ kind >> : kind \in SkidKinds }

\* Stacking inputs, on a usable container of 70 x 40 x 70 units (length x
\* width x height): a non-stackable skid 20 long, a stackable skid 40 long of
\* the same height with maxWeightOnTop 40, a light skid 50 long that does not
\* end on the search grid, and two lighter stackable skids 40 long.
StackingTruck == Truck(80, 60, 100, 70, 40, 70, Undefined)
StackingKinds ==
    { Skid(40, 20, 20, 120, 1, FALSE, FALSE, Undefined),
      Skid(40, 40, 20, 100, 1, TRUE, FALSE, 40),
      Skid(40, 50, 20, 30, 2, TRUE, FALSE, Undefined),
      Skid(40, 40, 20, 30, 2, TRUE, FALSE, Undefined),
      Skid(40, 40, 20, 20, 3, TRUE, FALSE, Undefined) }
StackingLists ==
    UNION { { [k \in 1..n |-> [id |-> k] @@ kinds[k]] : kinds \in [1..n -> StackingKinds] }
            : n \in 0..MaxSkids }

\* Inputs on a container wider than long (usable 40 x 60 x 40 units, length
\* x width x height): a stackable skid 20 x 60 that fits only at rotation 90,
\* and a light skid 20 x 20.
BroadTruck == Truck(60, 80, 60, 40, 60, 40, Undefined)
BroadKinds ==
    { Skid(20, 60, 20, 100, 1, TRUE, FALSE, Undefined),
      Skid(20, 20, 20, 10, 2, TRUE, FALSE, Undefined) }
BroadLists ==
    UNION { { [k \in 1..n |-> [id |-> k] @@ kinds[k]] : kinds \in [1..n -> BroadKinds] }
            : n \in 0..MaxSkids }

\* The inputs of optimizeLoading: << skids, truckDimensions >>.
Inputs ==
    (SkidLists \X Trucks)
      \cup (ScenarioLists \X {ScenarioTruck})
      \cup (SingleLists \X {WideTruck})
      \cup (StackingLists \X {StackingTruck})
      \cup (BroadLists \X {BroadTruck})

\* ------------------------------------------------- extreme-point packer
\* SkidPackingOptimizer and optimizeSkidPacking.  In this section a length is
\* an integer number of packer units, PackUnit of them to one unit of the
\* source, so that SAFETY_MARGIN = 0.0127 is a whole number of them.  The
\* inputs' dimensions are multiples of 100 packer units, which no comparison
\* of canPlaceSkid meets with equality.
PackUnit == 10000
\* const SAFETY_MARGIN = 0.0127
SAFETY_MARGIN == 127

\* p * q for two JavaScript numbers (p.num * q.num over p.den * q.den, in
\* lowest terms).
Product(p, q) ==
    IF p.kind = "NaN" \/ q.kind = "NaN" THEN NaN
    ELSE IF p.kind = "Infinity" \/ q.kind = "Infinity" THEN Infinity
    ELSE LET a == GCD(p.num, q.den)
             b == GCD(q.num, p.den)
         IN  Divide((p.num \div a) * (q.num \div b), (p.den \div b) * (q.den \div a))
\* p < q for two non-negative JavaScript numbers.
LessThan(p, q) ==
    IF p.kind = "NaN" \/ q.kind = "NaN" THEN FALSE
    ELSE IF p.kind = "Infinity" THEN FALSE
    ELSE IF q.kind = "Infinity" THEN TRUE
    ELSE p.num * q.den < q.num * p.den

\* this.container.insideLength || (this.container.length * 0.95), and so on.
containerLength(container) == OrElse(container.insideLength, (container.length * 95) \div 100)
containerWidth(container) == OrElse(container.insideWidth, (container.width * 95) \div 100)
containerHeight(container) == OrElse(container.insideHeight, (container.height * 75) \div 100)

\* One insertion of the stable Array.prototype.sort under
\* (a, b) => a.priority - b.priority: skid goes after every element that
\* does not come after it.
InsertByPriority(sorted, skid) ==
    LET before == SelectSeq(sorted, LAMBDA s : s.priority - skid.priority <= 0)
        after == SelectSeq(sorted, LAMBDA s : ~(s.priority - skid.priority <= 0))
    IN  before \o << skid >> \o after

RECURSIVE SortByPriorityPrefix(_, _)
SortByPriorityPrefix(list, n) ==
    IF n = 0 THEN << >>
    ELSE InsertByPriority(SortByPriorityPrefix(list, n - 1), list[n])

\* preprocessSkids under the default constraints (prioritizeByPriority).
preprocessSkids(list) == SortByPriorityPrefix(list, Len(list))

\* The two orientations tried for a skid, in order.
Orientations(skid) ==
    << [length |-> skid.length, width |-> skid.width, rotation |-> 0],
       [length |-> skid.width, width |-> skid.length, rotation |-> 90] >>

\* The box a placement occupies, as canPlaceSkid reads it.
existingLength(placement) ==
    IF placement.rotation = 0 THEN placement.skid.length ELSE placement.skid.width
existingWidth(placement) ==
    IF placement.rotation = 0 THEN placement.skid.width ELSE placement.skid.length

\* SkidPackingOptimizer.canPlaceSkid
packerCanPlaceSkid(cLength, cWidth, cHeight, point, skidLength, skidWidth, skidHeight, placed) ==
    LET length == skidLength - 2 * SAFETY_MARGIN
        width == skidWidth - 2 * SAFETY_MARGIN
        x == point.x + SAFETY_MARGIN
        y == point.y + SAFETY_MARGIN
        z == point.z
    IN  /\ ~ \/ x + length > cLength
             \/ y + width > cWidth
             \/ z + skidHeight > cHeight
        /\ \A k \in 1..Len(placed) :
              ~ /\ x < placed[k].position.x + existingLength(placed[k])
                /\ x + length > placed[k].position.x
                /\ y < placed[k].position.z + existingWidth(placed[k])
                /\ y + width > placed[k].position.z
                /\ z < placed[k].position.y + placed[k].skid.height
                /\ z + skidHeight > placed[k].position.y

\* The square of calculatePlacementScore(point, containerLength,
\* containerWidth); Math.sqrt is increasing, so two scores compare as their
\* squares do.  point.z is in units of the source.
calculatePlacementScore(point, cLength, cWidth) ==
    LET dx == Divide(point.x, cLength)
        dy == Divide(point.y, cWidth)
        dz == Divide(point.z, PackUnit)
    IN  Plus(Plus(Product(dx, dx), Product(dy, dy)), Product(dz, dz))

\* The best placement of skid over the first n tries, the tries running over
\* the extreme points in order and, for each point, the two orientations.
RECURSIVE BestPlacement(_, _, _, _, _)
BestPlacement(skid, points, placed, container, n) ==
    IF n = 0 THEN [found |-> FALSE, bestScore |-> Infinity]
    ELSE LET previous == BestPlacement(skid, points, placed, container, n - 1)
             point == points[(n + 1) \div 2]
             orientation == Orientations(skid)[IF n % 2 = 1 THEN 1 ELSE 2]
             score == calculatePlacementScore(point, containerLength(container),
                                              containerWidth(container))
         IN  IF ~packerCanPlaceSkid(containerLength(container), containerWidth(container),
                                    containerHeight(container), point, orientation.length,
                                    orientation.width, skid.height, placed)
             THEN previous
             ELSE IF LessThan(score, previous.bestScore)
             THEN [found |-> TRUE, bestScore |-> score,
                   bestPlacement |->
                       [skid |-> skid,
                        position |-> [x |-> point.x, y |-> point.z, z |-> point.y,
                                      rotation |-> orientation.rotation],
                        rotation |-> orientation.rotation]]
             ELSE previous

\* points without its element at index k (extremePoints.splice(k, 1)).
Splice(points, k) == SubSeq(points, 1, k - 1) \o SubSeq(points, k + 1, Len(points))

\* "the point is inside the new skid", bounds included.
InsideNewSkid(point, x, y, z, length, width, height) ==
    /\ point.x >= x /\ point.x <= x + length
    /\ point.y >= y /\ point.y <= y + width
    /\ point.z >= z /\ point.z <= z + height

\* Another point of the array is at or behind point in all dimensions.
isDominated(points, k) ==
    \E j \in 1..Len(points) :
        /\ j # k
        /\ points[j].x <= points[k].x
        /\ points[j].y <= points[k].y
        /\ points[j].z <= points[k].z

\* The loop "for (let i = extremePoints.length - 1; i >= 0; i--)" from index
\* k (counted from 1) down.
RECURSIVE RemoveDominated(_, _, _, _, _, _, _, _)
RemoveDominated(points, k, x, y, z, length, width, height) ==
    IF k = 0 THEN points
    ELSE IF InsideNewSkid(points[k], x, y, z, length, width, height)
    THEN RemoveDominated(Splice(points, k), k - 1, x, y, z, length, width, height)
    ELSE IF isDominated(points, k)
    THEN RemoveDominated(Splice(points, k), k - 1, x, y, z, length, width, height)
    ELSE RemoveDominated(points, k - 1, x, y, z, length, width, height)

\* updateExtremePoints(extremePoints, x, y, z, length, width, height): the
\* array afterwards.
updateExtremePoints(points, x, y, z, length, width, height) ==
    LET pushed == points \o << [x |-> x + length, y |-> y, z |-> z],
                              [x |-> x, y |-> y + width, z |-> z],
                              [x |-> x, y |-> y, z |-> z + height] >>
    IN  RemoveDominated(pushed, Len(pushed), x, y, z, length, width, height)

\* One iteration of "for (const skid of this.skids)": the placements and the
\* extreme points afterwards.
PlacementsAfter(skid, points, placed, container) ==
    LET best == BestPlacement(skid, points, placed, container, 2 * Len(points))
    IN  IF best.found THEN Append(placed, best.bestPlacement) ELSE placed

PointsAfter(skid, points, placed, container) ==
    LET best == BestPlacement(skid, points, placed, container, 2 * Len(points))
        bestPlacement == best.bestPlacement
    IN  IF best.found
        THEN updateExtremePoints(points, bestPlacement.position.x, bestPlacement.position.z,
                 bestPlacement.position.y,
                 IF bestPlacement.rotation = 0 THEN skid.length ELSE skid.width,
                 IF bestPlacement.rotation = 0 THEN skid.width ELSE skid.length,
                 skid.height)
        ELSE points

\* calculateUtilization: placedVolume / containerVolume, each skid's share
\* taken as the product of its three ratios to the container.
calculateUtilization(cLength, cWidth, cHeight, placed) ==
    IF cLength = 0 \/ cWidth = 0 \/ cHeight = 0
    THEN IF placed = << >> THEN NaN ELSE Infinity
    ELSE LET Share(k) ==
                 Product(Product(Divide(placed[k].skid.length, cLength),
                                 Divide(placed[k].skid.width, cWidth)),
                         Divide(placed[k].skid.height, cHeight))
             SumShares[k \in 0..Len(placed)] ==
                 IF k = 0 THEN Frac(0, 1) ELSE Plus(SumShares[k - 1], Share(k))
         IN  SumShares[Len(placed)]

\* The OptimizationResult runExtremePointPacking returns.
OptimizationResultOf(sorted, placed, container) ==
    [returned |-> TRUE,
     placements |-> placed,
     utilization |-> calculateUtilization(containerLength(container),
                         containerWidth(container), containerHeight(container), placed),
     unplacedSkids |->
         SelectSeq(sorted, LAMBDA s : \A k \in 1..Len(placed) : placed[k].skid.id # s.id)]

\* Packer inputs: containers of 3 x 2 x 2 units of the source with the inside
\* dimensions given, and of 4 x 2 x 4 with the outer dimensions only; skids 1
\* x 1 x 1, 2 x 1 x 1, 1 x 1 x 0.5, and one 3.01 long.
PackerTrucks ==
    { Truck(32000, 22000, 24000, 30000, 20000, 20000, Undefined),
      Truck(40000, 20000, 40000, Undefined, Undefined, Undefined, Undefined) }
PackerKinds ==
    { Skid(10000, 10000, 10000, 100, 1, TRUE, FALSE, Undefined),
      Skid(10000, 20000, 10000, 100, 2, TRUE, FALSE, Undefined),
      Skid(10000, 10000, 5000, 50, 3, TRUE, FALSE, Undefined),
      Skid(10000, 30100, 10000, 100, 1, TRUE, FALSE, Undefined) }
PackerLists ==
    UNION { { [k \in 1..n |-> [id |-> k] @@ kinds[k]] : kinds \in [1..n -> PackerKinds] }
            : n \in 0..MaxSkids }
\* The inputs of optimizeSkidPacking: << skids, truckDimensions >>.
PackerInputs == PackerLists \X PackerTrucks

\* ------------------------------------------------------- loading sequence
\* CompareForLoading with the higher skid first.
CompareForLoading_TopFirst(a, b) ==
    IF a.position.y # b.position.y THEN b.position.y - a.position.y
    ELSE a.position.z - b.position.z

\* The comparator of generateLoadingSequence: by y, then by z.
CompareForLoading(a, b) ==
    IF a.position.y # b.position.y THEN a.position.y - b.position.y
    ELSE a.position.z - b.position.z

\* InsertForLoading putting a skid before the skids it compares equal to.
RECURSIVE InsertForLoading_Unstable(_, _)
InsertForLoading_Unstable(sorted, skid) ==
    IF sorted = << >> THEN << skid >>
    ELSE IF CompareForLoading(sorted[Len(sorted)], skid) < 0 THEN Append(sorted, skid)
    ELSE Append(InsertForLoading_Unstable(SubSeq(sorted, 1, Len(sorted) - 1), skid),
                sorted[Len(sorted)])

\* Array.prototype.sort (stable) under CompareForLoading.
RECURSIVE InsertForLoading(_, _)
InsertForLoading(sorted, skid) ==
    IF sorted = << >> THEN << skid >>
    ELSE IF CompareForLoading(sorted[Len(sorted)], skid) <= 0 THEN Append(sorted, skid)
    ELSE Append(InsertForLoading(SubSeq(sorted, 1, Len(sorted) - 1), skid),
                sorted[Len(sorted)])

RECURSIVE SortForLoadingPrefix(_, _)
SortForLoadingPrefix(list, k) ==
    IF k = 0 THEN << >>
    ELSE InsertForLoading(SortForLoadingPrefix(list, k - 1), list[k])

\* One LoadingStep; the instruction string is kept as the parts it is built of.
LoadingStep(skid, index) ==
    [skidId |-> skid.id,
     position |-> skid.position,
     instruction |->
        [step |-> index,
         rotation |-> IF skid.position.rotation = 0 THEN "length-wise" ELSE "width-wise",
         side |-> IF 2 * skid.position.x < skid.width THEN "left side"
                  ELSE IF 2 * skid.position.x > skid.width THEN "right side"
                  ELSE "center",
         z |-> skid.position.z,
         x |-> skid.position.x,
         level |-> IF skid.position.y > 0 THEN "stacked on top of other skids"
                   ELSE "on the floor"]]

\* generateLoadingSequence(loadedSkids)
generateLoadingSequence(loaded) ==
    LET placed == SelectSeq(loaded, HasPosition)
        sortedForLoading == SortForLoadingPrefix(placed, Len(placed))
    IN  [steps |-> [k \in 1..Len(sortedForLoading) |-> LoadingStep(sortedForLoading[k], k)]]

\* generateLoadingInstructions(loadingPlan)
generateLoadingInstructions(loadingPlan) == generateLoadingSequence(loadingPlan.loadedSkids)

\* ----------------------------------------------------------- state machine
VARIABLES
    skids,            \* the input array of optimizeLoading
    truckDimensions,  \* the input container
    skidsToLoad,      \* the sorted copy
    i,                \* iterations of the placement loop done
    loadedSkids,      \* the skids placed so far, each with its position
    warnings,         \* the console.warn log: << kind, skid id >>
    plan,             \* the returned LoadingPlan
    sequence,         \* the LoadingSequence generateLoadingInstructions returns
    pc,               \* "start", "loop", "done", "instructed"; for the packer
                      \* "constructed", "packing", "returned"
    packerSkids,      \* this.skids of the SkidPackingOptimizer
    packed,           \* iterations of "for (const skid of this.skids)" done
    extremePoints,    \* the extremePoints array of runExtremePointPacking
    placements,       \* its placements array
    result            \* the OptimizationResult optimizeSkidPacking returns

\* The state of optimizeLoading and generateLoadingInstructions, and of the
\* packer.
loadingVars == << skidsToLoad, i, loadedSkids, warnings, plan, sequence >>
packerVars == << packerSkids, packed, extremePoints, placements, result >>

vars == << skids, truckDimensions, skidsToLoad, i, loadedSkids, warnings, plan,
           sequence, pc, packerSkids, packed, extremePoints, placements, result >>

NoPlan == [returned |-> FALSE]
NoSequence == [returned |-> FALSE]
NoResult == [returned |-> FALSE]

Init ==
    /\ \E input \in Inputs :
          /\ skids = input[1]
          /\ truckDimensions = input[2]
    /\ skidsToLoad = << >>
    /\ i = 0
    /\ loadedSkids = << >>
    /\ warnings = << >>
    /\ plan = NoPlan
    /\ sequence = NoSequence
    /\ pc = "start"
    /\ packerSkids = << >>
    /\ packed = 0
    /\ extremePoints = << >>
    /\ placements = << >>
    /\ result = NoResult

\* SortSkids sorting the input array in place (skids.sort(...) without the copy).
SortSkids_InPlace ==
    /\ pc = "start"
    /\ skids' = sortSkidsForLoading(skids)
    /\ skidsToLoad' = sortSkidsForLoading(skids)
    /\ pc' = "loop"
    /\ UNCHANGED << truckDimensions, i, loadedSkids, warnings, plan, sequence >>
    /\ UNCHANGED packerVars

\* const sortedSkids = sortSkidsForLoading(skids); const skidsToLoad = [...sortedSkids]
SortSkids ==
    /\ pc = "start"
    /\ skidsToLoad' = sortSkidsForLoading(skids)
    /\ pc' = "loop"
    /\ UNCHANGED << skids, truckDimensions, i, loadedSkids, warnings, plan, sequence >>
    /\ UNCHANGED packerVars

\* LoadedAfter testing possiblePositions.length > 1.
LoadedAfter_MoreThanOne(skid, loaded, truck) ==
    LET possiblePositions == findPossiblePositions(skid, loaded, truck)
        best == SelectBest(skid, possiblePositions, loaded, truck, Len(possiblePositions))
    IN  IF Len(possiblePositions) > 1 /\ best.hasBest
        THEN Append(loaded, [position |-> best.bestPosition] @@ skid)
        ELSE loaded

\* LoadedAfter taking the last loaded skid out again when skid fails to fit.
LoadedAfter_PopOnFail(skid, loaded, truck) ==
    LET possiblePositions == findPossiblePositions(skid, loaded, truck)
        best == SelectBest(skid, possiblePositions, loaded, truck, Len(possiblePositions))
    IN  IF Len(possiblePositions) > 0 /\ best.hasBest
        THEN Append(loaded, [position |-> best.bestPosition] @@ skid)
        ELSE IF loaded = << >> THEN loaded
        ELSE SubSeq(loaded, 1, Len(loaded) - 1)

\* What one iteration of the placement loop does with skid on the loaded list.
LoadedAfter(skid, loaded, truck) ==
    LET possiblePositions == findPossiblePositions(skid, loaded, truck)
        best == SelectBest(skid, possiblePositions, loaded, truck, Len(possiblePositions))
    IN  IF Len(possiblePositions) > 0 /\ best.hasBest
        THEN Append(loaded, [position |-> best.bestPosition] @@ skid)
        ELSE loaded

\* What one iteration adds to the console.warn log.
WarningsAfter(skid, loaded, truck, log) ==
    LET possiblePositions == findPossiblePositions(skid, loaded, truck)
        best == SelectBest(skid, possiblePositions, loaded, truck, Len(possiblePositions))
    IN  IF Len(possiblePositions) = 0 THEN Append(log, << "No possible positions", skid.id >>)
        ELSE IF ~best.hasBest THEN Append(log, << "No valid position", skid.id >>)
        ELSE log

\* One iteration of "for (let i = 0; i < skidsToLoad.length; i++)".
PlaceNextSkid ==
    /\ pc = "loop"
    /\ i < Len(skidsToLoad)
    /\ loadedSkids' = LoadedAfter(skidsToLoad[i + 1], loadedSkids, truckDimensions)
    /\ warnings' = WarningsAfter(skidsToLoad[i + 1], loadedSkids, truckDimensions, warnings)
    /\ i' = i + 1
    /\ UNCHANGED << skids, truckDimensions, skidsToLoad, plan, sequence, pc >>
    /\ UNCHANGED packerVars

\* After the loop: unloadedSkids, the metrics and the return.
ReturnPlan ==
    /\ pc = "loop"
    /\ i = Len(skidsToLoad)
    /\ plan' = LoadingPlanOf(skidsToLoad, loadedSkids, truckDimensions)
    /\ pc' = "done"
    /\ UNCHANGED << skids, truckDimensions, skidsToLoad, i, loadedSkids, warnings,
                    sequence >>
    /\ UNCHANGED packerVars

\* The caller's second call, over the returned plan:
\* generateLoadingInstructions(loadingPlan).
GenerateInstructions ==
    /\ pc = "done"
    /\ sequence' = generateLoadingInstructions(plan)
    /\ pc' = "instructed"
    /\ UNCHANGED << skids, truckDimensions, skidsToLoad, i, loadedSkids, warnings, plan >>
    /\ UNCHANGED packerVars

Next == SortSkids \/ PlaceNextSkid \/ ReturnPlan \/ GenerateInstructions

Spec == Init /\ [][Next]_vars

\* ------------------------------------------- state machine of the packer
\* optimizeSkidPacking(truckDimensions, skids) after
\* new SkidPackingOptimizer(truckDimensions, skids): this.skids = [...skids].
InitPacking ==
    /\ \E input \in PackerInputs :
          /\ skids = input[1]
          /\ truckDimensions = input[2]
          /\ packerSkids = input[1]
    /\ packed = 0
    /\ extremePoints = << >>
    /\ placements = << >>
    /\ result = NoResult
    /\ pc = "constructed"
    /\ skidsToLoad = << >>
    /\ i = 0
    /\ loadedSkids = << >>
    /\ warnings = << >>
    /\ plan = NoPlan
    /\ sequence = NoSequence

\* optimize(): this.preprocessSkids(), then the start of
\* runExtremePointPacking: extremePoints = [{ x: 0, y: 0, z: 0 }].
PreprocessSkids ==
    /\ pc = "constructed"
    /\ packerSkids' = preprocessSkids(packerSkids)
    /\ extremePoints' = << [x |-> 0, y |-> 0, z |-> 0] >>
    /\ pc' = "packing"
    /\ UNCHANGED << skids, truckDimensions, packed, placements, result >>
    /\ UNCHANGED loadingVars

\* One iteration of "for (const skid of this.skids)", updateExtremePoints
\* included.
PackNextSkid ==
    /\ pc = "packing"
    /\ packed < Len(packerSkids)
    /\ placements' = PlacementsAfter(packerSkids[packed + 1], extremePoints, placements,
                                     truckDimensions)
    /\ extremePoints' = PointsAfter(packerSkids[packed + 1], extremePoints, placements,
                                    truckDimensions)
    /\ packed' = packed + 1
    /\ UNCHANGED << skids, truckDimensions, packerSkids, result, pc >>
    /\ UNCHANGED loadingVars

\* After the loop: unplacedSkids, the utilization and the return.
ReturnResult ==
    /\ pc = "packing"
    /\ packed = Len(packerSkids)
    /\ result' = OptimizationResultOf(packerSkids, placements, truckDimensions)
    /\ pc' = "returned"
    /\ UNCHANGED << skids, truckDimensions, packerSkids, packed, extremePoints, placements >>
    /\ UNCHANGED loadingVars

NextPacking == PreprocessSkids \/ PackNextSkid \/ ReturnResult

SpecPacking == InitPacking /\ [][NextPacking]_vars

\* ================================================================== claims
\* Vocabulary of the claims, stated on a loaded skid s (a skid with a position)
\* and independent of the operators of the engine above.
EffW(s) == IF s.position.rotation = 90 THEN s.length ELSE s.width
EffL(s) == IF s.position.rotation = 90 THEN s.width ELSE s.length
Top(s) == s.position.y + s.height

\* The half-open intervals [a, a + m) and [b, b + n) have a point in common.
RangesMeet(a, m, b, n) == a < b + n /\ b < a + m

BoxesOverlap(s, t) ==
    /\ RangesMeet(s.position.x, EffW(s), t.position.x, EffW(t))
    /\ RangesMeet(s.position.y, s.height, t.position.y, t.height)
    /\ RangesMeet(s.position.z, EffL(s), t.position.z, EffL(t))

\* Length of the common part of [a, a + m) and [b, b + n), 0 when disjoint.
CommonLength(a, m, b, n) ==
    IF RangesMeet(a, m, b, n)
    THEN (IF a + m < b + n THEN a + m ELSE b + n) - (IF a > b THEN a ELSE b)
    ELSE 0

\* Area of the common part of the two rotated footprints.
FootprintOverlap(s, t) ==
    CommonLength(s.position.x, EffW(s), t.position.x, EffW(t))
      * CommonLength(s.position.z, EffL(s), t.position.z, EffL(t))

\* s rests on t: t's top is at s's y and the footprints overlap with positive area.
RestsOn(s, t) == Top(t) = s.position.y /\ FootprintOverlap(s, t) > 0

\* The plan is returned.
Returned == pc \in {"done", "instructed"}

\* The usable dimensions as the claims state them.
UsableWidth(truck) ==
    IF truck.insideWidth # Undefined THEN truck.insideWidth ELSE (truck.width * 95) \div 100
UsableLength(truck) ==
    IF truck.insideLength # Undefined THEN truck.insideLength ELSE (truck.length * 95) \div 100
UsableHeight(truck) ==
    IF truck.insideHeight # Undefined THEN truck.insideHeight ELSE (truck.height * 75) \div 100
UsableVolume(truck) == UsableWidth(truck) * UsableLength(truck) * UsableHeight(truck)

\* Sum of f[k] over the indices k in set S.
RECURSIVE SumOver(_, _)
SumOver(f, S) ==
    IF S = {} THEN 0
    ELSE LET k == CHOOSE k \in S : TRUE IN f[k] + SumOver(f, S \ {k})

\* The indices of the stackable skids of list that s rests on.
SupportersOf(s, list) ==
    {k \in 1..Len(list) : list[k].isStackable /\ list[k].id # s.id /\ RestsOn(s, list[k])}

\* No two skids of the list have overlapping boxes.
PairwiseDisjoint(list) ==
    \A j, k \in 1..Len(list) : j # k => ~BoxesOverlap(list[j], list[k])

\* C1: no two distinct loaded skids have overlapping rotated boxes, after
\* every iteration of the placement loop and in the returned plan.
C1_NoOverlap ==
    /\ PairwiseDisjoint(loadedSkids)
    /\ Returned => PairwiseDisjoint(plan.loadedSkids)

\* C1 witness: a returned plan with three loaded skids, one of them stacked
\* and two side by side on the floor.
C1_Witness ==
    /\ Returned
    /\ Len(plan.loadedSkids) = 3
    /\ \E j, k, m \in 1..3 :
          /\ j # k
          /\ plan.loadedSkids[j].position.y = 0
          /\ plan.loadedSkids[k].position.y = 0
          /\ plan.loadedSkids[m].position.y > 0

\* The rotated box of s lies inside the usable container.
InsideUsable(s, truck) ==
    /\ s.position.x >= 0
    /\ s.position.y >= 0
    /\ s.position.z >= 0
    /\ s.position.x + EffW(s) <= UsableWidth(truck)
    /\ s.position.y + s.height <= UsableHeight(truck)
    /\ s.position.z + EffL(s) <= UsableLength(truck)

\* C2: every loaded skid of the returned plan lies inside the usable container.
C2_WithinBounds ==
    Returned =>
       \A k \in 1..Len(plan.loadedSkids) :
          /\ HasPosition(plan.loadedSkids[k])
          /\ InsideUsable(plan.loadedSkids[k], plan.truckDimensions)

\* C2 witness: a plan for a container without inside dimensions (the 95% /
\* 75% fallback) holding a skid loaded at rotation 90 whose footprint is not
\* square.
C2_Witness ==
    /\ Returned
    /\ truckDimensions.insideWidth = Undefined
    /\ \E k \in 1..Len(plan.loadedSkids) :
          /\ plan.loadedSkids[k].position.rotation = 90
          /\ plan.loadedSkids[k].width # plan.loadedSkids[k].length

\* The area of s's footprint that lies on its supporters.
SupportedAreaOf(s, list) ==
    SumOver([k \in 1..Len(list) |-> FootprintOverlap(s, list[k])], SupportersOf(s, list))

\* C3: every loaded skid above the floor is supported on at least 70% of its
\* rotated footprint by loaded stackable skids whose top is at its y.
C3_Supported ==
    Returned =>
       \A k \in 1..Len(plan.loadedSkids) :
          LET s == plan.loadedSkids[k]
          IN  s.position.y > 0 =>
                 10 * SupportedAreaOf(s, plan.loadedSkids) >= 7 * EffW(s) * EffL(s)

\* C3 witness: a loaded skid above the floor that overhangs its supporters
\* (supported on less than its whole footprint).
C3_Witness ==
    /\ Returned
    /\ \E k \in 1..Len(plan.loadedSkids) :
          LET s == plan.loadedSkids[k]
          IN  /\ s.position.y > 0
              /\ SupportedAreaOf(s, plan.loadedSkids) < EffW(s) * EffL(s)

\* The capacity aggregated over the supporters S of s: maxWeightOnTop, or 0.8
\* of the weight, times the share of the supporter's footprint under s.
RECURSIVE CapacityOver(_, _, _)
CapacityOver(s, list, S) ==
    IF S = {} THEN Frac(0, 1)
    ELSE LET k == CHOOSE k \in S : TRUE
             t == list[k]
             share == IF t.maxWeightOnTop # Undefined
                      THEN Divide(t.maxWeightOnTop * FootprintOverlap(s, t),
                                  EffW(t) * EffL(t))
                      ELSE Divide(t.weight * 4 * FootprintOverlap(s, t),
                                  5 * EffW(t) * EffL(t))
         IN  Plus(share, CapacityOver(s, list, S \ {k}))

\* The weight of s does not exceed the capacity of its supporters.
WithinCapacity(s, list) ==
    LET capacity == CapacityOver(s, list, SupportersOf(s, list))
    IN  s.weight * capacity.den <= capacity.num

C5_NothingOnFragile ==
    Returned =>
       \A f, k \in 1..Len(plan.loadedSkids) :
          (f # k /\ plan.loadedSkids[f].isFragile) =>
             ~RestsOn(plan.loadedSkids[k], plan.loadedSkids[f])

\* The ids of a list of skids, and whether they are pairwise distinct.
IdsOf(list) == {list[k].id : k \in 1..Len(list)}
DistinctIds(list) == \A j, k \in 1..Len(list) : j # k => list[j].id # list[k].id

\* C6: the returned plan partitions the input: the lengths add up, every input
\* id is in exactly one of the two lists, and every loaded skid has a position.
C6_Conservation ==
    (Returned /\ DistinctIds(skids)) =>
       /\ Len(plan.loadedSkids) + Len(plan.unloadedSkids) = Len(skids)
       /\ IdsOf(plan.loadedSkids) \cup IdsOf(plan.unloadedSkids) = IdsOf(skids)
       /\ IdsOf(plan.loadedSkids) \cap IdsOf(plan.unloadedSkids) = {}
       /\ DistinctIds(plan.loadedSkids)
       /\ DistinctIds(plan.unloadedSkids)
       /\ \A k \in 1..Len(plan.loadedSkids) : HasPosition(plan.loadedSkids[k])

\* C6 witness: a plan of three input skids with two loaded skids and one that
\* is not the last one attempted left unloaded.
C6_Witness ==
    /\ Returned
    /\ Len(skids) = 3
    /\ Len(plan.loadedSkids) = 2
    /\ Len(plan.unloadedSkids) = 1
    /\ plan.unloadedSkids[1].id # skidsToLoad[3].id

\* front + middle + back = 100 and left + right = 100.
SumsTo100(distribution) ==
    /\ IsNumber(Plus(Plus(distribution.front, distribution.middle), distribution.back), 100)
    /\ IsNumber(Plus(distribution.left, distribution.right), 100)

\* C7 as stated: whenever loadedSkids is non-empty, front + middle + back = 100
\* and left + right = 100.
C7_Original ==
    (Returned /\ Len(plan.loadedSkids) > 0) => SumsTo100(plan.weightDistribution)

\* All five percentages are 0.
AllZero(distribution) ==
    /\ IsNumber(distribution.front, 0)
    /\ IsNumber(distribution.middle, 0)
    /\ IsNumber(distribution.back, 0)
    /\ IsNumber(distribution.left, 0)
    /\ IsNumber(distribution.right, 0)

\* C7 as amended: whenever the total weight of the loaded skids is positive,
\* front + middle + back = 100 and left + right = 100; when loadedSkids is
\* non-empty and its total weight is zero, all five percentages are 0.
C7_Normalized ==
    (Returned /\ Len(plan.loadedSkids) > 0) =>
       IF plan.totalWeight > 0
       THEN SumsTo100(plan.weightDistribution)
       ELSE AllZero(plan.weightDistribution)

\* C7 witness: a plan of positive total weight whose weight is spread over
\* two depth zones.
C7_Witness ==
    /\ Returned
    /\ plan.totalWeight > 0
    /\ Cardinality({zone \in {"front", "middle", "back"} :
                      ~IsNumber(plan.weightDistribution[zone], 0)}) >= 2

\* C8: for an empty item list and a container of positive usable volume the
\* call runs to its return, and the plan has empty lists, spaceUtilization 0,
\* totalWeight 0 and five zero percentages.
C8_EmptyInput ==
    (skids = << >> /\ UsableVolume(truckDimensions) > 0) =>
       /\ ~Returned => ENABLED Next
       /\ warnings = << >>
       /\ Returned =>
             /\ plan.loadedSkids = << >>
             /\ plan.unloadedSkids = << >>
             /\ IsNumber(plan.spaceUtilization, 0)
             /\ plan.totalWeight = 0
             /\ AllZero(plan.weightDistribution)

\* C8 witness: the plan returned for the empty list and a container of
\* positive usable volume.
C8_Witness == Returned /\ skids = << >> /\ UsableVolume(truckDimensions) > 0

\* C9: when the usable volume of the container is zero, spaceUtilization is 0.
C9_ZeroVolumeGuarded ==
    (Returned /\ UsableVolume(truckDimensions) = 0) => IsNumber(plan.spaceUtilization, 0)

\* No position the generator tries for skid passes canPlaceSkid.
NoCandidatePasses(skid, loaded, truck) ==
    /\ \A k \in DOMAIN FloorCandidates(skid, truck) :
          ~canPlaceSkid(skid, FloorCandidates(skid, truck)[k], loaded, truck)
    /\ \A k \in DOMAIN StackedPositions(skid, loaded) :
          ~canPlaceSkid(skid, StackedPositions(skid, loaded)[k], loaded, truck)

\* One step: the loop body appends the skid at hand exactly when a candidate
\* passes and moves on to the next skid; no other step changes loadedSkids.
C10_Turn ==
    IF ~(pc = "loop" /\ i < Len(skidsToLoad)) THEN loadedSkids' = loadedSkids
    ELSE
       /\ i' = i + 1
       /\ pc' = "loop"
       /\ IF NoCandidatePasses(skidsToLoad[i + 1], loadedSkids, truckDimensions)
          THEN loadedSkids' = loadedSkids
          ELSE /\ Len(loadedSkids') = Len(loadedSkids) + 1
               /\ SubSeq(loadedSkids', 1, Len(loadedSkids)) = loadedSkids
               /\ loadedSkids'[Len(loadedSkids')].id = skidsToLoad[i + 1].id

\* At the return every skid had its turn and unloadedSkids holds exactly the
\* input skids that were not appended.
C10_Returned ==
    Returned =>
       /\ i = Len(skids)
       /\ IdsOf(plan.unloadedSkids) = IdsOf(skids) \ IdsOf(loadedSkids)
       /\ plan.loadedSkids = loadedSkids

\* C10: a skid ends in unloadedSkids if and only if, at its turn, no floor
\* candidate and no stacked candidate passes canPlaceSkid against the skids
\* loaded so far; the loop goes on to every remaining skid.
C10_UnloadedIffNoCandidate == [][C10_Turn]_vars /\ [](C10_Returned)

\* C10 witness: a plan in which a skid was left unloaded and a skid attempted
\* after it was loaded.
C10_Witness ==
    /\ Returned
    /\ \E j, k \in 1..Len(skidsToLoad) :
          /\ j < k
          /\ skidsToLoad[j].id \in IdsOf(plan.unloadedSkids)
          /\ skidsToLoad[k].id \in IdsOf(plan.loadedSkids)

\* list is an initial part of longer, element by element (ids and positions).
IsPrefix(list, longer) ==
    Len(list) <= Len(longer) /\ SubSeq(longer, 1, Len(list)) = list

\* One step keeps every loaded skid where it is, and the plan, once returned,
\* holds the loaded list as the loop left it.
C11_Step ==
    /\ IsPrefix(loadedSkids, loadedSkids')
    /\ pc' \in {"done", "instructed"} => plan'.loadedSkids = loadedSkids'

\* C11: optimizeLoading never backtracks: a skid appended to loadedSkids with a
\* position stays in loadedSkids at the same index with the same position in
\* every later iteration and in the returned plan; the loaded list only grows.
C11_NoBacktracking == [][C11_Step]_vars

\* C11 witness: a returned plan in which a skid was loaded and a skid
\* attempted after it failed to fit.
C11_Witness ==
    /\ Returned
    /\ \E j, k \in 1..Len(skidsToLoad) :
          /\ j < k
          /\ skidsToLoad[j].id \in IdsOf(plan.loadedSkids)
          /\ skidsToLoad[k].id \in IdsOf(plan.unloadedSkids)

\* Sum of width x length x height over the skids of list.
VolumeOf(list) ==
    SumOver([k \in 1..Len(list) |-> list[k].width * list[k].length * list[k].height],
            1..Len(list))

\* The number q is 100 x n / d, for n >= 0 and d > 0 (n and d are divided by
\* a common divisor before the cross-multiplication).
IsPercentageOf(q, n, d) ==
    LET common == GCD(n, d)
    IN  /\ q.kind = "finite"
        /\ q.num * (d \div common) = 100 * (n \div common) * q.den

CapacityVolume(truck) ==
    IF truck.cubicCapacity # Undefined /\ truck.cubicCapacity # 0
    THEN truck.cubicCapacity
    ELSE UsableVolume(truck)

FitsEmpty(skid, truck) ==
    /\ skid.height <= UsableHeight(truck)
    /\ \/ skid.width <= UsableWidth(truck) /\ skid.length <= UsableLength(truck)
       \/ skid.length <= UsableWidth(truck) /\ skid.width <= UsableLength(truck)

\* The plan of a single-item input whose item fits in the empty container.
SingleFitting == Returned /\ Len(skids) = 1 /\ FitsEmpty(skids[1], truckDimensions)

\* s touches a side wall and the front or the back wall of the usable container.
InCorner(s, truck) ==
    /\ s.position.x = 0 \/ s.position.x + EffW(s) = UsableWidth(truck)
    /\ s.position.z = 0 \/ s.position.z + EffL(s) = UsableLength(truck)

\* Scenario A: a usable container of 10 x 2 x 2 (length x width x height) and
\* one 2 x 2 x 2 skid of priority 1.
ScenarioA ==
    /\ UsableLength(truckDimensions) = 10 * LengthUnit
    /\ UsableWidth(truckDimensions) = 2 * LengthUnit
    /\ UsableHeight(truckDimensions) = 2 * LengthUnit
    /\ Len(skids) = 1
    /\ skids[1].width = 2 * LengthUnit
    /\ skids[1].length = 2 * LengthUnit
    /\ skids[1].height = 2 * LengthUnit
    /\ skids[1].priority = 1

\* In scenario A the skid is at (0, 0, 0) and spaceUtilization is 20.
ScenarioAOutcome ==
    ScenarioA =>
       /\ plan.loadedSkids[1].position.x = 0
       /\ plan.loadedSkids[1].position.y = 0
       /\ plan.loadedSkids[1].position.z = 0
       /\ IsNumber(plan.spaceUtilization, 20)

VolumeOfSkid(s) == s.width * s.length * s.height
GoesBefore(list, j, k) ==
    LET a == list[j]
        b == list[k]
    IN  IF a.priority # b.priority THEN a.priority < b.priority
        ELSE IF a.weight # b.weight THEN a.weight > b.weight
        ELSE IF VolumeOfSkid(a) # VolumeOfSkid(b) THEN VolumeOfSkid(a) > VolumeOfSkid(b)
        ELSE j < k

\* Two boxes a and b cannot both be in the usable container: in no pair of
\* rotations in which each fits do they go side by side across the width or
\* one behind the other along the length, and one cannot be above the other (the heights
\* add up to more than the usable height, or neither is stackable).
CannotBothFit(a, b, truck) ==
    /\ \A ra, rb \in {0, 90} :
          LET wa == IF ra = 0 THEN a.width ELSE a.length
              la == IF ra = 0 THEN a.length ELSE a.width
              wb == IF rb = 0 THEN b.width ELSE b.length
              lb == IF rb = 0 THEN b.length ELSE b.width
              Fits(w, l) == w <= UsableWidth(truck) /\ l <= UsableLength(truck)
          IN  (Fits(wa, la) /\ Fits(wb, lb)) =>
                 wa + wb > UsableWidth(truck) /\ la + lb > UsableLength(truck)
    /\ \/ a.height + b.height > UsableHeight(truck)
       \/ ~a.isStackable /\ ~b.isStackable

\* The plan of a two-item input whose items each fit alone but cannot both fit.
TwoCompeting ==
    /\ Returned
    /\ Len(skids) = 2
    /\ FitsEmpty(skids[1], truckDimensions)
    /\ FitsEmpty(skids[2], truckDimensions)
    /\ CannotBothFit(skids[1], skids[2], truckDimensions)

\* C14: when two items each fit alone in the container but cannot both fit,
\* exactly one is loaded and exactly one is left in unloadedSkids, and the
\* loaded one is the one that comes first in the placement order.
C14_FirstInOrderWins ==
    TwoCompeting =>
       /\ Len(plan.loadedSkids) = 1
       /\ Len(plan.unloadedSkids) = 1
       /\ \E j, k \in 1..2 :
             /\ j # k
             /\ GoesBefore(skids, j, k)
             /\ plan.loadedSkids[1].id = skids[j].id
             /\ plan.unloadedSkids[1].id = skids[k].id

\* C14 witness: two competing items of equal priority and different weight,
\* of which the second of the input is the one loaded.
C14_Witness ==
    /\ TwoCompeting
    /\ skids[1].priority = skids[2].priority
    /\ skids[1].weight # skids[2].weight
    /\ Len(plan.loadedSkids) = 1
    /\ plan.loadedSkids[1].id = skids[2].id

\* The skid s without its position.
WithoutPosition(s) == [field \in DOMAIN s \ {"position"} |-> s[field]]

\* Every skid of list is, apart from a position, an input skid.
CopiesOfInputs(list) ==
    \A k \in 1..Len(list) : \E j \in 1..Len(skids) : WithoutPosition(list[k]) = skids[j]

\* No skid of list carries a position.
Unpositioned(list) == \A k \in 1..Len(list) : ~HasPosition(list[k])

\* In every state: the input skids, which are the objects the sorted copy and
\* unloadedSkids hold, carry no position, and every loaded skid is an input
\* skid with the same dimensions, weight and other fields plus a position.
C15_State ==
    /\ Unpositioned(skids)
    /\ Unpositioned(skidsToLoad)
    /\ CopiesOfInputs(skidsToLoad)
    /\ CopiesOfInputs(loadedSkids)
    /\ Returned =>
          /\ Unpositioned(plan.unloadedSkids)
          /\ CopiesOfInputs(plan.unloadedSkids)
          /\ CopiesOfInputs(plan.loadedSkids)
          /\ plan.truckDimensions = truckDimensions

\* C15: optimizeLoading does not modify its inputs: no step changes the input
\* array (same elements, same order) or the container, no input skid gains or
\* changes a position, dimension or weight, and positions exist only on the
\* copies stored in loadedSkids.
C15_InputsUnmodified ==
    /\ [][skids' = skids /\ truckDimensions' = truckDimensions]_vars
    /\ []C15_State

\* C15 witness: a returned plan with a loaded and an unloaded skid whose
\* sorted order differs from the input order.
C15_Witness ==
    /\ Returned
    /\ skidsToLoad # skids
    /\ Len(plan.loadedSkids) > 0
    /\ Len(plan.unloadedSkids) > 0

\* The index in list of the skid with the given id.
IndexOf(list, id) == CHOOSE k \in 1..Len(list) : list[k].id = id

\* sorted holds the skids of list, each once, in the placement order of the
\* claims (GoesBefore, input order deciding full ties).
IsStableSortOf(sorted, list) ==
    /\ Len(sorted) = Len(list)
    /\ \A k \in 1..Len(sorted) : \E j \in 1..Len(list) : sorted[k] = list[j]
    /\ \A j, k \in 1..Len(sorted) :
          j < k => GoesBefore(list, IndexOf(list, sorted[j].id), IndexOf(list, sorted[k].id))

\* part holds skids of whole, by id, in the order they have in whole.
IsSubsequenceOf(part, whole) ==
    /\ \A k \in 1..Len(part) : \E j \in 1..Len(whole) : whole[j].id = part[k].id
    /\ \A j, k \in 1..Len(part) :
          j < k => IndexOf(whole, part[j].id) < IndexOf(whole, part[k].id)

\* After the sort the list attempted is the stable sort of the input, and the
\* loaded and the unloaded skids are subsequences of it.
C17_State ==
    /\ pc # "start" => IsStableSortOf(skidsToLoad, skids)
    /\ IsSubsequenceOf(loadedSkids, skidsToLoad)
    /\ Returned =>
          /\ IsSubsequenceOf(plan.loadedSkids, skidsToLoad)
          /\ IsSubsequenceOf(plan.unloadedSkids, skidsToLoad)

\* The n-th iteration of the loop attempts the n-th skid of the sorted list:
\* that skid is the one appended to loadedSkids or the one warned about.
C17_Step ==
    i' # i =>
       /\ i' = i + 1
       /\ \/ /\ Len(loadedSkids') = Len(loadedSkids) + 1
             /\ loadedSkids'[Len(loadedSkids')].id = skidsToLoad[i'].id
             /\ warnings' = warnings
          \/ /\ loadedSkids' = loadedSkids
             /\ Len(warnings') = Len(warnings) + 1
             /\ warnings'[Len(warnings')][2] = skidsToLoad[i'].id

\* C17: optimizeLoading attempts items in the order of a stable sort on
\* (priority ascending, weight descending, volume descending), input order
\* deciding full ties; loadedSkids and unloadedSkids are each a subsequence of
\* that sorted order.
C17_SortedAttempts == [][C17_Step]_vars /\ []C17_State

\* C17 witness: a returned plan of three skids, two of them tied on priority,
\* weight and volume and the third, last in the input, sorted first, with a
\* loaded and an unloaded skid.
C17_Witness ==
    /\ Returned
    /\ Len(skids) = 3
    /\ WithoutPosition(skids[1]) = [skids[2] EXCEPT !.id = 1]
    /\ skidsToLoad[1].id = 3
    /\ Len(plan.loadedSkids) > 0
    /\ Len(plan.unloadedSkids) > 0

\* The sequence has been returned for the plan.
Instructed == pc = "instructed"

\* The index in steps of the step for the skid with the given id.
StepOf(steps, id) == CHOOSE k \in 1..Len(steps) : steps[k].skidId = id

\* Step a goes before step b: lower y, or the same y and lower z, or the same
\* y and z and earlier in loadedSkids.
StepGoesBefore(a, b, loaded) ==
    IF a.position.y # b.position.y THEN a.position.y < b.position.y
    ELSE IF a.position.z # b.position.z THEN a.position.z < b.position.z
    ELSE IndexOf(loaded, a.skidId) < IndexOf(loaded, b.skidId)

\* C18: generateLoadingInstructions returns exactly one step per loaded skid
\* of the plan, each step carrying that skid's id and its position from the
\* plan, ordered by y ascending and, among equal y, by z ascending, skids
\* equal in both keeping their loadedSkids order.
C18_OneStepPerLoadedSkid ==
    Instructed =>
       /\ Len(sequence.steps) = Len(plan.loadedSkids)
       /\ \A k \in 1..Len(plan.loadedSkids) :
             /\ Cardinality({n \in 1..Len(sequence.steps) :
                               sequence.steps[n].skidId = plan.loadedSkids[k].id}) = 1
             /\ sequence.steps[StepOf(sequence.steps, plan.loadedSkids[k].id)].position
                   = plan.loadedSkids[k].position
       /\ \A j, k \in 1..Len(sequence.steps) :
             j < k => StepGoesBefore(sequence.steps[j], sequence.steps[k], plan.loadedSkids)
       /\ \A n \in 1..Len(sequence.steps) : sequence.steps[n].instruction.step = n

\* C18 witness: a sequence of three steps that is not in loadedSkids order
\* and has two steps of equal y and z.
C18_Witness ==
    /\ Instructed
    /\ Len(sequence.steps) = 3
    /\ \E n \in 1..3 : sequence.steps[n].skidId # plan.loadedSkids[n].id
    /\ \E j, k \in 1..3 :
          /\ j # k
          /\ sequence.steps[j].position.y = sequence.steps[k].position.y
          /\ sequence.steps[j].position.z = sequence.steps[k].position.z

\* C19: in the sequence returned for a plan of optimizeLoading, every stacked
\* skid appears after every skid that supports it, that is, after every
\* loaded skid whose top is at its y and whose footprint overlaps its own.
C19_SupportersFirst ==
    Instructed =>
       \A s, t \in 1..Len(plan.loadedSkids) :
          (s # t /\ RestsOn(plan.loadedSkids[s], plan.loadedSkids[t])) =>
             StepOf(sequence.steps, plan.loadedSkids[t].id)
                < StepOf(sequence.steps, plan.loadedSkids[s].id)

\* C19 witness: a sequence in which a stacked skid comes after the skid it
\* rests on and after a floor skid that was loaded after it.
C19_Witness ==
    /\ Instructed
    /\ \E s, t, f \in 1..Len(plan.loadedSkids) :
          /\ RestsOn(plan.loadedSkids[s], plan.loadedSkids[t])
          /\ plan.loadedSkids[f].position.y = 0
          /\ s < f
          /\ StepOf(sequence.steps, plan.loadedSkids[f].id)
                < StepOf(sequence.steps, plan.loadedSkids[s].id)

\* C20: in every returned plan the total weight of the loaded skids does not
\* exceed the container's maxWeight, and no loaded skid is one whose addition
\* took the weight loaded so far over maxWeight.
C20_WithinMaxWeight ==
    Returned =>
       /\ plan.totalWeight <= truckDimensions.maxWeight
       /\ \A k \in 1..Len(plan.loadedSkids) :
             SumOver([j \in 1..Len(plan.loadedSkids) |-> plan.loadedSkids[j].weight],
                     1..k) <= truckDimensions.maxWeight

\* C21: in every returned plan a fragile skid is on the floor: every loaded
\* skid with isFragile = TRUE has position y = 0, after every iteration too.
C21_FragileOnFloor ==
    /\ \A k \in 1..Len(loadedSkids) :
          loadedSkids[k].isFragile => loadedSkids[k].position.y = 0
    /\ Returned =>
          \A k \in 1..Len(plan.loadedSkids) :
             plan.loadedSkids[k].isFragile => plan.loadedSkids[k].position.y = 0

\* C21 witness: a plan with a fragile skid on the floor, a fragile skid left
\* unloaded, and a non-fragile skid loaded above the floor.
C21_Witness ==
    /\ Returned
    /\ \E k \in 1..Len(plan.loadedSkids) :
          plan.loadedSkids[k].isFragile /\ plan.loadedSkids[k].position.y = 0
    /\ \E k \in 1..Len(plan.unloadedSkids) : plan.unloadedSkids[k].isFragile
    /\ \E k \in 1..Len(plan.loadedSkids) :
          ~plan.loadedSkids[k].isFragile /\ plan.loadedSkids[k].position.y > 0

\* C22: nothing rests on a non-stackable skid: no loaded skid has its y at
\* the top of a loaded skid with isStackable = FALSE while their rotated
\* footprints overlap with positive area.
C22_NothingOnNonStackable ==
    Returned =>
       \A n, k \in 1..Len(plan.loadedSkids) :
          (n # k /\ ~plan.loadedSkids[n].isStackable) =>
             ~RestsOn(plan.loadedSkids[k], plan.loadedSkids[n])

\* The indices of the skids of list stacked above list[b] within its
\* footprint, through any number of levels: S grown by every skid whose
\* footprint overlaps list[b]'s and that rests on list[b] or on a skid of S.
RECURSIVE StackedAbove(_, _, _)
StackedAbove(list, b, S) ==
    LET more == {k \in 1..Len(list) \ (S \cup {b}) :
                    /\ FootprintOverlap(list[k], list[b]) > 0
                    /\ \/ RestsOn(list[k], list[b])
                       \/ \E t \in S : RestsOn(list[k], list[t])}
    IN  IF more = {} THEN S ELSE StackedAbove(list, b, S \cup more)

\* The total weight stacked above list[b].
WeightAbove(list, b) ==
    SumOver([k \in 1..Len(list) |-> list[k].weight], StackedAbove(list, b, {}))

\* C23: for every loaded stackable skid B with maxWeightOnTop defined, the
\* total weight of the loaded skids stacked above B within its footprint,
\* through any number of levels, does not exceed B.maxWeightOnTop.
C23_TotalWeightOnTop ==
    Returned =>
       \A b \in 1..Len(plan.loadedSkids) :
          (plan.loadedSkids[b].isStackable
             /\ plan.loadedSkids[b].maxWeightOnTop # Undefined) =>
             WeightAbove(plan.loadedSkids, b) <= plan.loadedSkids[b].maxWeightOnTop

\* The first skid of loaded, in loadedSkids order, whose stacked sweep tries
\* position q for skid (0 when none does).
FirstSupporterTrying(skid, q, loaded) ==
    LET trying == {k \in 1..Len(loaded) :
                      /\ loaded[k].isStackable
                      /\ \E n \in DOMAIN StackCandidatesOn(skid, loaded[k]) :
                            StackCandidatesOn(skid, loaded[k])[n] = q}
    IN  IF trying = {} THEN 0 ELSE CHOOSE k \in trying : \A j \in trying : k <= j

\* Candidate q is generated before candidate p: a floor candidate before a
\* stacked one; floor candidates by z, then x, then rotation 0 before 90;
\* stacked candidates by their supporting skid in loadedSkids order.
GeneratedBefore(skid, q, p, loaded) ==
    IF q.y = 0 /\ p.y = 0
    THEN \/ q.z < p.z
         \/ q.z = p.z /\ q.x < p.x
         \/ q.z = p.z /\ q.x = p.x /\ q.rotation < p.rotation
    ELSE IF q.y = 0 \/ p.y = 0 THEN q.y = 0
    ELSE FirstSupporterTrying(skid, q, loaded) < FirstSupporterTrying(skid, p, loaded)

\* The position p committed for skid over loaded is a feasible candidate, no
\* feasible candidate scores higher, and no feasible candidate generated
\* before it scores as high.
IsFirstBest(skid, p, loaded, truck) ==
    LET tried == FloorCandidates(skid, truck) \o StackedPositions(skid, loaded)
        Feasible(q) == canPlaceSkid(skid, q, loaded, truck)
        Score(q) == scorePosition(skid, q, loaded, truck)
    IN  /\ \E n \in DOMAIN tried : tried[n] = p
        /\ Feasible(p)
        /\ \A n \in DOMAIN tried :
              Feasible(tried[n]) =>
                 /\ Score(tried[n]) <= Score(p)
                 /\ GeneratedBefore(skid, tried[n], p, loaded) => Score(tried[n]) < Score(p)

\* One step: a skid appended to loadedSkids is the skid at hand, at the best
\* candidate, first in generation order among the best.
C24_Step ==
    Len(loadedSkids') = Len(loadedSkids) + 1 =>
       /\ loadedSkids'[Len(loadedSkids')].id = skidsToLoad[i + 1].id
       /\ IsFirstBest(skidsToLoad[i + 1], loadedSkids'[Len(loadedSkids')].position,
                      loadedSkids, truckDimensions)

\* C24: for each item optimizeLoading commits the candidate with the maximum
\* score among all feasible candidates, and among candidates of equal maximum
\* score the one generated first (floor candidates by z, then x, rotation 0
\* before 90, then stacked candidates per supporting skid in loadedSkids order).
C24_FirstBestCommitted == [][C24_Step]_vars

\* C24 witness: a plan with a skid of square footprint on the floor and one
\* above the floor (both rotations of each tie in score), the stacked one
\* with more than one loaded stackable skid to rest on.
C24_Witness ==
    /\ Returned
    /\ \E f, s \in 1..Len(plan.loadedSkids) :
          /\ plan.loadedSkids[f].width = plan.loadedSkids[f].length
          /\ plan.loadedSkids[f].position.y = 0
          /\ plan.loadedSkids[s].width = plan.loadedSkids[s].length
          /\ plan.loadedSkids[s].position.y > 0
          /\ Cardinality({k \in 1..(s - 1) : plan.loadedSkids[k].isStackable}) >= 2

\* The box [x, x + w) x [y, y + h) x [z, z + l) touches the placed skid t on
\* a side: the faces meet along x and the boxes share an extent in z and y,
\* or the faces meet along z and the boxes share an extent in x and y.
TouchesSide(x, y, z, w, l, h, t) ==
    \/ /\ x = t.position.x + EffW(t) \/ x + w = t.position.x
       /\ RangesMeet(z, l, t.position.z, EffL(t))
       /\ RangesMeet(y, h, t.position.y, t.height)
    \/ /\ z = t.position.z + EffL(t) \/ z + l = t.position.z
       /\ RangesMeet(x, w, t.position.x, EffW(t))
       /\ RangesMeet(y, h, t.position.y, t.height)

\* The score of position p for skid on its rotated footprint effW x effL,
\* times ScoreScale: the priority term, +3 on the floor, +2 at a side wall,
\* +2 at the front or back wall, +1 per neighbour in contact, -0.5 per length
\* unit between the centre of the footprint and the centre line.
RotatedFootprintScore(skid, p, loaded, truck) ==
    LET effW == IF p.rotation = 90 THEN skid.length ELSE skid.width
        effL == IF p.rotation = 90 THEN skid.width ELSE skid.length
        scale == 4 * LengthUnit * PriorityWeightDen * UsableLength(truck)
        priorityTerm ==
            IF skid.priority <= 2
            THEN (UsableLength(truck) - p.z) * 4 * LengthUnit * 10 * PRIORITY_WEIGHT_NUM
            ELSE p.z * 4 * LengthUnit * PriorityWeightDen * 5
        bonuses ==
            (IF p.y = 0 THEN 3 ELSE 0)
            + (IF p.x = 0 \/ p.x + effW >= UsableWidth(truck) THEN 2 ELSE 0)
            + (IF p.z = 0 \/ p.z + effL >= UsableLength(truck) THEN 2 ELSE 0)
            + Cardinality({k \in 1..Len(loaded) :
                             TouchesSide(p.x, p.y, p.z, effW, effL, skid.height, loaded[k])})
        offCentre == 2 * p.x + effW - UsableWidth(truck)
    IN  priorityTerm + bonuses * scale
        - (IF offCentre < 0 THEN -offCentre ELSE offCentre)
             * PriorityWeightDen * UsableLength(truck)

\* C25: scorePosition evaluates every candidate on its rotated footprint: for
\* the skid at hand and each candidate tried, the score is the score computed
\* with effW and effL in the wall, contact and balance terms.
C25_ScoresRotatedFootprint ==
    (pc = "loop" /\ i < Len(skidsToLoad)) =>
       LET skid == skidsToLoad[i + 1]
           tried == FloorCandidates(skid, truckDimensions)
                      \o StackedPositions(skid, loadedSkids)
       IN  \A n \in DOMAIN tried :
              canPlaceSkid(skid, tried[n], loadedSkids, truckDimensions) =>
                 scorePosition(skid, tried[n], loadedSkids, truckDimensions)
                    = RotatedFootprintScore(skid, tried[n], loadedSkids, truckDimensions)

\* C26: with z measured from the front, of two candidates for the skid at
\* hand that differ only in z, the one with the larger z (further back) has
\* the larger priority term when the priority is 1 or 2, and the one with the
\* smaller z (nearer the front) has the larger term when the priority is
\* above 2.
C26_HighPriorityTowardBack ==
    (pc = "loop" /\ i < Len(skidsToLoad)) =>
       LET skid == skidsToLoad[i + 1]
           tried == FloorCandidates(skid, truckDimensions)
       IN  \A m, n \in DOMAIN tried :
              (/\ tried[m].z > tried[n].z
               /\ tried[m].x = tried[n].x
               /\ tried[m].rotation = tried[n].rotation) =>
                 IF skid.priority <= 2
                 THEN priorityScore(skid, tried[m], truckDimensions)
                         > priorityScore(skid, tried[n], truckDimensions)
                 ELSE priorityScore(skid, tried[n], truckDimensions)
                         > priorityScore(skid, tried[m], truckDimensions)

\* The offsets -extent + Step, -extent + 2 Step, ... below support: the
\* step-aligned offsets at which an interval of length extent overlaps an
\* interval of length support that starts at offset 0.
AlignedOffsets(extent, support) ==
    {Step * n - extent : n \in 1..((extent + support) \div Step + 1)}
       \cap {offset \in (1 - extent)..(support - 1) : TRUE}

\* The positions on top of the placed skid t at which the footprint of skid,
\* at either rotation, overlaps the footprint of t as placed.
OverlappingPositionsOn(skid, t) ==
    UNION { LET effW == IF r = 90 THEN skid.length ELSE skid.width
                effL == IF r = 90 THEN skid.width ELSE skid.length
            IN  { [x |-> t.position.x + xOffset, y |-> Top(t),
                   z |-> t.position.z + zOffset, rotation |-> r] :
                  xOffset \in AlignedOffsets(effW, EffW(t)),
                  zOffset \in AlignedOffsets(effL, EffL(t)) }
          : r \in {0, 90} }

\* C27: for a non-fragile skid at hand and every loaded stackable skid S,
\* every position at the top of S at a step-aligned offset at which the
\* skid's rotated footprint overlaps S's rotated footprint, and that passes
\* canPlaceSkid, is among the candidates findPossiblePositions returns.
C27_WholeFootprintSwept ==
    (pc = "loop" /\ i < Len(skidsToLoad) /\ ~skidsToLoad[i + 1].isFragile) =>
       LET skid == skidsToLoad[i + 1]
           returned == findPossiblePositions(skid, loadedSkids, truckDimensions)
       IN  \A s \in 1..Len(loadedSkids) :
              loadedSkids[s].isStackable =>
                 \A p \in OverlappingPositionsOn(skid, loadedSkids[s]) :
                    canPlaceSkid(skid, p, loadedSkids, truckDimensions) =>
                       \E n \in DOMAIN returned : returned[n] = p

\* Vocabulary of the packer claims, stated on a placement p and independent
\* of the operators of the packer above.  A placement's position holds the
\* offset along the length in x, along the width in z and the height in y.
BoxLength(p) == IF p.rotation = 90 THEN p.skid.width ELSE p.skid.length
BoxWidth(p) == IF p.rotation = 90 THEN p.skid.length ELSE p.skid.width
PointsOf(points) == { points[k] : k \in 1..Len(points) }
\* The right-edge, front-edge and top-edge corners of a placement, as points
\* << x, y, z >> of the frontier (y along the width, z the height).
CornersOf(p) ==
    { [x |-> p.position.x + BoxLength(p), y |-> p.position.z, z |-> p.position.y],
      [x |-> p.position.x, y |-> p.position.z + BoxWidth(p), z |-> p.position.y],
      [x |-> p.position.x, y |-> p.position.z, z |-> p.position.y + p.skid.height] }
Dominates(q, c) == q # c /\ q.x <= c.x /\ q.y <= c.y /\ q.z <= c.z
\* q lies in the box of p, faces included.
InBoxOf(q, p) ==
    /\ p.position.x <= q.x /\ q.x <= p.position.x + BoxLength(p)
    /\ p.position.z <= q.y /\ q.y <= p.position.z + BoxWidth(p)
    /\ p.position.y <= q.z /\ q.z <= p.position.y + p.skid.height

\* C28: when the packer places a skid, each of the three corners of the
\* placed box (right edge, front edge, top edge) is in the frontier
\* afterwards, unless a point of the frontier (one that remains, or one
\* outside the placed box that was there before) dominates it component-wise.
C28_Step ==
    placements' # placements =>
        LET p == placements'[Len(placements')]
        IN  \A c \in CornersOf(p) :
                \/ c \in PointsOf(extremePoints')
                \/ \E q \in PointsOf(extremePoints') : Dominates(q, c)
                \/ \E q \in PointsOf(extremePoints) : ~InBoxOf(q, p) /\ Dominates(q, c)
C28_CornersRemain == [][C28_Step]_vars

\* Two skids fit side by side along the length: unrotated, one behind the
\* other from the origin, inside the container.
SideBySide(a, b, container) ==
    /\ a.length + b.length <= containerLength(container)
    /\ a.width <= containerWidth(container) /\ b.width <= containerWidth(container)
    /\ a.height <= containerHeight(container) /\ b.height <= containerHeight(container)

\* C29: for an input of two skids that fit side by side along the length,
\* the returned result has both in placements and unplacedSkids empty.
C29_BothPlaced ==
    (result.returned /\ Len(skids) = 2 /\ SideBySide(skids[1], skids[2], truckDimensions))
        => Len(result.placements) = 2 /\ result.unplacedSkids = << >>

\* C30: every placement keeps the skid's full rotated box inside the
\* container.
C30_FullBoxInside ==
    \A k \in 1..Len(placements) :
        /\ placements[k].position.x + BoxLength(placements[k])
               <= containerLength(truckDimensions)
        /\ placements[k].position.z + BoxWidth(placements[k])
               <= containerWidth(truckDimensions)
        /\ placements[k].position.y + placements[k].skid.height
               <= containerHeight(truckDimensions)

====
